---- MODULE Spec2Model ----
(***************************************************************************)
(* Model of `entra approleassignment list`                                 *)
(* (src/m365/entra/commands/approleassignment/approleassignment-list.ts).  *)
(*                                                                         *)
(* One invocation of the command: option validation, the application       *)
(* locator (getAppRoleAssignments), the fan-out of getServicePrincipal     *)
(* requests joined by Promise.all, and the join of the assignments with    *)
(* the app roles of the fetched resources.  The directory (Microsoft       *)
(* Graph) is the environment: its replies are chosen nondeterministically, *)
(* except that one invocation sees one content per resource id.            *)
(***************************************************************************)
EXTENDS Naturals, Sequences, FiniteSets

(* ------------------------------ bounds -------------------------------- *)
MaxAssignments == 2     \* longest appRoleAssignments collection returned
MaxRoles == 2           \* longest appRoles catalog of a resource
MaxMatches == 2         \* most service principals a filter query returns

(* ------------------------------ values -------------------------------- *)
Undefined == "<undefined>"        \* option not supplied (JS undefined)
NoError == "<none>"
ValidGuid == "22222222-2222-2222-2222-222222222222"
InvalidGuid == "not-a-guid"
GuidOptionValues == {Undefined, "", ValidGuid, InvalidGuid}
NameOptionValues == {Undefined, "My App"}

ResourceIds == {"R1", "R2"}
RoleIds == {"Role1", "Role2"}
RoleValues == {"Reader", "Writer"}

SeqsUpTo(S, n) == UNION {[1..k -> S] : k \in 0..n}

\* AppRoleAssignment (microsoft-graph-types): the fields the command reads.
AppRoleAssignments ==
  [appRoleId : RoleIds, resourceId : ResourceIds, resourceDisplayName : {"Graph"},
   createdDateTime : {"2020-01-01"}, deletedDateTime : {"null"}]

\* AppRole: id and value.
AppRoles == [id : RoleIds, value : RoleValues]

\* A reply to GET /servicePrincipals/{id}: a service principal or a failure.
FetchError(spId) == "Resource '" \o spId \o "' does not exist"

FetchReplies(spId) ==
  {[status |-> "ok", error |-> NoError, id |-> rid, appRoles |-> rs] :
      rid \in ResourceIds, rs \in SeqsUpTo(AppRoles, MaxRoles)}
  \cup {[status |-> "error", error |-> FetchError(spId), id |-> "", appRoles |-> <<>>]}

NotFetched == [status |-> "unknown", error |-> NoError, id |-> "", appRoles |-> <<>>]

\* Replies to the two locator queries.
TransportError == "Request failed"
NoResp == [kind |-> "none", error |-> NoError, value |-> <<>>]

AssignmentsReplies ==
  {[kind |-> "assignments", error |-> NoError, value |-> v] :
      v \in SeqsUpTo(AppRoleAssignments, MaxAssignments)}
  \cup {[kind |-> "error", error |-> TransportError, value |-> <<>>]}

ServicePrincipalsReplies ==
  {[kind |-> "servicePrincipals", error |-> NoError, value |-> v] :
      v \in SeqsUpTo([appRoleAssignments : SeqsUpTo(AppRoleAssignments, MaxAssignments)],
                     MaxMatches)}
  \cup {[kind |-> "error", error |-> TransportError, value |-> <<>>]}

(* ------------------------------ state --------------------------------- *)
VARIABLES
  options,               \* args.options
  pc,                    \* position of the invocation
  requests,              \* requests issued to the directory, in order
  resp,                  \* reply to the locator query (local of getAppRoleAssignments)
  returned,              \* value getAppRoleAssignments resolved with
  spAppRoleAssignments,  \* commandAction local
  resourceIds,           \* commandAction local
  i,                     \* loop index of the fan-out (1-based)
  tasks,                 \* the getServicePrincipal promises
  all,                   \* the Promise.all(tasks) promise
  directory,             \* content of the directory seen by this invocation
  resources,             \* commandAction local
  logged,                \* values passed to logger.log
  error                  \* message the invocation failed with

vars == <<options, pc, requests, resp, returned, spAppRoleAssignments, resourceIds,
          i, tasks, all, directory, resources, logged, error>>

(* --------------------------- validation ------------------------------- *)
\* JS truthiness of an optional string option.
Truthy(s) == s # Undefined /\ s # ""

Supplied(s) == s # Undefined

isValidGuid(s) == s = ValidGuid

OptionSet == <<"appId", "appObjectId", "appDisplayName">>

SuppliedOfSet(o) == {k \in 1..Len(OptionSet) : Supplied(o[OptionSet[k]])}

OptionSetError == "Specify one of the following options: appId, appObjectId, appDisplayName."

\* Result of the validator pushed by #initValidators: NoError stands for `true`.
Validator(o) ==
  IF Truthy(o.appId) /\ ~isValidGuid(o.appId)
    THEN o.appId \o " is not a valid GUID"
  ELSE IF Truthy(o.appObjectId) /\ ~isValidGuid(o.appObjectId)
    THEN o.appObjectId \o " is not a valid GUID"
  ELSE NoError

\* Option sets are checked first, then the command's validators.
Validation(o) ==
  IF Cardinality(SuppliedOfSet(o)) # 1 THEN OptionSetError ELSE Validator(o)

(* ------------------------ application locator ------------------------- *)
EncodeQueryParameter(s) ==
  IF s = Undefined THEN "undefined"
  ELSE IF s = "My App" THEN "My%20App"
  ELSE s

spMatchQuery(o) ==
  IF Truthy(o.appId)
    THEN "appId eq '" \o EncodeQueryParameter(o.appId) \o "'"
    ELSE "displayName eq '" \o EncodeQueryParameter(o.appDisplayName) \o "'"

LocatorRequest(o) ==
  IF Truthy(o.appObjectId)
    THEN [op |-> "getSPAppRoleAssignments", arg |-> o.appObjectId]
    ELSE [op |-> "getServicePrincipalForApp", arg |-> spMatchQuery(o)]

\* if (!spAppRoleAssignments.value.length)
NoAssignmentsNever(value) == Len(value) < 0

NoAssignments(value) == Len(value) = 0

\* if (!resp.value.length)
NoServicePrincipal(value) == Len(value) = 0

\* resp.value[0]
LastMatch(value) == value[Len(value)]

FirstMatch(value) == value[1]

\* What getAppRoleAssignments does with the reply: the thrown message
\* (NoError when it returns) and the returned collection.
LocatorOutcome(r) ==
  IF r.kind = "error" THEN [error |-> r.error, value |-> <<>>]
  ELSE IF r.kind = "assignments"
    THEN IF NoAssignments(r.value)
           THEN [error |-> "no app role assignments found", value |-> <<>>]
           ELSE [error |-> NoError, value |-> r.value]
  ELSE IF NoServicePrincipal(r.value)
         THEN [error |-> "app registration not found", value |-> <<>>]
         ELSE [error |-> NoError, value |-> FirstMatch(r.value).appRoleAssignments]

(* -------------------------- resource resolver ------------------------- *)
\* The deduplicated fetch list a reimplementation would use: the resource ids
\* of the assignments, each once, in order of first occurrence.
RECURSIVE DistinctFrom(_, _, _)
DistinctFrom(seen, assignments, k) ==
  IF k > Len(assignments) THEN seen
  ELSE IF \E n \in 1..Len(seen) : seen[n] = assignments[k].resourceId
    THEN DistinctFrom(seen, assignments, k + 1)
  ELSE DistinctFrom(Append(seen, assignments[k].resourceId), assignments, k + 1)

DistinctResourceIds(assignments) == DistinctFrom(<<>>, assignments, 1)

\* spAppRoleAssignments.map(item => item.resourceId)
DedupedResourceIdsOf(assignments) == DistinctResourceIds(assignments)

ResourceIdsOf(assignments) ==
  [k \in 1..Len(assignments) |-> assignments[k].resourceId]

\* Loop condition of the fan-out (i is 1-based here).
LoopSkipsLast(k, ids) == k < Len(ids)

LoopContinues(k, ids) == k <= Len(ids)

PendingTask == [state |-> "pending", reply |-> NotFetched]

AllFulfilled(ts) == \A k \in 1..Len(ts) : ts[k].state = "fulfilled"

\* Promise.all: settles with the first rejection, or fulfils once every
\* task has fulfilled; a settled promise never changes.
PromiseAllSettled(p, ts, k) ==
  IF p.state # "pending" THEN p
  ELSE IF \A n \in 1..Len(ts) : ts[n].state # "pending"
    THEN [state |-> "fulfilled", reason |-> NoError]
  ELSE p

PromiseAll(p, ts, k) ==
  IF p.state # "pending" THEN p
  ELSE IF k > 0 /\ ts[k].state = "rejected"
    THEN [state |-> "rejected", reason |-> ts[k].reply.error]
  ELSE IF AllFulfilled(ts) THEN [state |-> "fulfilled", reason |-> NoError]
  ELSE p

PendingAll == [state |-> "pending", reason |-> NoError]

\* Values Promise.all fulfils with: one per task, in task order.
FulfilledValues(ts) == [k \in 1..Len(ts) |-> ts[k].reply]

(* --------------------------- assignment joiner ------------------------ *)
NotFound == 0

\* Array.prototype.find as the index of the first match (NotFound if none).
RECURSIVE FindFrom(_, _, _)
FindFrom(arr, id, k) ==
  IF k > Len(arr) THEN NotFound
  ELSE IF arr[k].id = id THEN k
  ELSE FindFrom(arr, id, k + 1)

FindResource(rs, resourceId) == FindFrom(rs, resourceId, 1)

FirstAppRole(appRoles, appRoleId) == IF Len(appRoles) > 0 THEN 1 ELSE NotFound

FindAppRole(appRoles, appRoleId) == FindFrom(appRoles, appRoleId, 1)

Enriched(a, appRole) ==
  [appRoleId |-> a.appRoleId,
   resourceDisplayName |-> a.resourceDisplayName,
   resourceId |-> a.resourceId,
   roleId |-> appRole.id,
   roleName |-> appRole.value,
   created |-> a.createdDateTime,
   deleted |-> a.deletedDateTime]

Unshift(results, record) == <<record>> \o results

Push(results, record) == Append(results, record)

UndefinedRole == [id |-> "undefined", value |-> "undefined"]

JoinOneNoRoleCheck(results, a, rs) ==
  LET r == FindResource(rs, a.resourceId) IN
  IF r = NotFound THEN results
  ELSE LET role == FindAppRole(rs[r].appRoles, a.appRoleId) IN
       Push(results, Enriched(a, IF role = NotFound THEN UndefinedRole
                                  ELSE rs[r].appRoles[role]))

\* Body of the callback of spAppRoleAssignments.map: results after one assignment.
JoinOne(results, a, rs) ==
  LET r == FindResource(rs, a.resourceId) IN
  IF r = NotFound THEN results
  ELSE LET role == FindAppRole(rs[r].appRoles, a.appRoleId) IN
       IF role = NotFound THEN results
       ELSE Push(results, Enriched(a, rs[r].appRoles[role]))

RECURSIVE JoinFrom(_, _, _, _)
JoinFrom(results, assignments, rs, k) ==
  IF k > Len(assignments) THEN results
  ELSE JoinFrom(JoinOne(results, assignments[k], rs), assignments, rs, k + 1)

Join(assignments, rs) == JoinFrom(<<>>, assignments, rs, 1)

(* ------------------------------ actions ------------------------------- *)
Init ==
  /\ options \in [appId : GuidOptionValues, appObjectId : GuidOptionValues,
                  appDisplayName : NameOptionValues]
  /\ pc = "validate"
  /\ requests = <<>>
  /\ resp = NoResp
  /\ returned = <<>>
  /\ spAppRoleAssignments = <<>>
  /\ resourceIds = <<>>
  /\ i = 1
  /\ tasks = <<>>
  /\ all = PendingAll
  /\ directory = [rid \in ResourceIds |-> NotFetched]
  /\ resources = <<>>
  /\ logged = <<>>
  /\ error = NoError

\* The command runs only if the option sets and the validators accept the options.
Validate ==
  /\ pc = "validate"
  /\ IF Validation(options) = NoError
       THEN pc' = "commandAction" /\ error' = error
       ELSE pc' = "failed" /\ error' = Validation(options)
  /\ UNCHANGED <<options, requests, resp, returned, spAppRoleAssignments, resourceIds,
                 i, tasks, all, directory, resources, logged>>

\* commandAction calls getAppRoleAssignments, which issues its query and awaits.
GetAppRoleAssignments ==
  /\ pc = "commandAction"
  /\ requests' = Append(requests, LocatorRequest(options))
  /\ pc' = "locatorPending"
  /\ UNCHANGED <<options, resp, returned, spAppRoleAssignments, resourceIds,
                 i, tasks, all, directory, resources, logged, error>>

\* The directory answers the locator query.
LocatorReply ==
  /\ pc = "locatorPending"
  /\ resp' \in IF requests[1].op = "getSPAppRoleAssignments"
                 THEN AssignmentsReplies ELSE ServicePrincipalsReplies
  /\ pc' = "locatorReplied"
  /\ UNCHANGED <<options, requests, returned, spAppRoleAssignments, resourceIds,
                 i, tasks, all, directory, resources, logged, error>>

\* getAppRoleAssignments resumes: it throws (caught by commandAction, which
\* rethrows through handleRejectedODataJsonPromise) or returns.
LocatorThrows ==
  /\ pc = "locatorReplied"
  /\ LocatorOutcome(resp).error # NoError
  /\ error' = LocatorOutcome(resp).error
  /\ pc' = "failed"
  /\ UNCHANGED <<options, requests, resp, returned, spAppRoleAssignments, resourceIds,
                 i, tasks, all, directory, resources, logged>>

LocatorReturns ==
  /\ pc = "locatorReplied"
  /\ LocatorOutcome(resp).error = NoError
  /\ returned' = LocatorOutcome(resp).value
  /\ pc' = "locatorReturned"
  /\ UNCHANGED <<options, requests, resp, spAppRoleAssignments, resourceIds,
                 i, tasks, all, directory, resources, logged, error>>

\* commandAction resumes with the assignments and maps them to resource ids.
StartFanOut ==
  /\ pc = "locatorReturned"
  /\ spAppRoleAssignments' = returned
  /\ resourceIds' = ResourceIdsOf(returned)
  /\ resp' = NoResp
  /\ returned' = <<>>
  /\ i' = 1
  /\ pc' = "fanOut"
  /\ UNCHANGED <<options, requests, tasks, all, directory, resources, logged, error>>

\* One iteration of the for loop: tasks.push(this.getServicePrincipal(resourceIds[i])).
IssueFetch ==
  /\ pc = "fanOut"
  /\ LoopContinues(i, resourceIds)
  /\ requests' = Append(requests, [op |-> "getServicePrincipal", arg |-> resourceIds[i]])
  /\ tasks' = Append(tasks, PendingTask)
  /\ i' = i + 1
  /\ UNCHANGED <<options, pc, resp, returned, spAppRoleAssignments, resourceIds,
                 all, directory, resources, logged, error>>

\* Loop exit: Promise.all(tasks) is created and awaited.
AwaitAll ==
  /\ pc = "fanOut"
  /\ ~LoopContinues(i, resourceIds)
  /\ all' = PromiseAll(PendingAll, tasks, 0)
  /\ pc' = "awaitAll"
  /\ UNCHANGED <<options, requests, resp, returned, spAppRoleAssignments, resourceIds,
                 i, tasks, directory, resources, logged, error>>

\* Reply of the directory to fetch k, consistent with what it already
\* answered for the same id in this invocation.
ReplyFor(k, reply) ==
  /\ tasks[k].state = "pending"
  /\ pc \in {"awaitAll", "failed"}
  /\ directory[resourceIds[k]] \in {NotFetched, reply}

Settle(k, reply, state) ==
  /\ tasks' = [tasks EXCEPT ![k] = [state |-> state, reply |-> reply]]
  /\ directory' = [directory EXCEPT ![resourceIds[k]] = reply]
  /\ all' = PromiseAll(all, tasks', k)
  /\ UNCHANGED <<options, pc, requests, resp, returned, spAppRoleAssignments,
                 resourceIds, i, resources, logged, error>>

FetchFulfils ==
  \E k \in 1..Len(tasks) : \E reply \in FetchReplies(resourceIds[k]) :
      /\ ReplyFor(k, reply)
      /\ reply.status = "ok"
      /\ Settle(k, reply, "fulfilled")

FetchRejects ==
  \E k \in 1..Len(tasks) : \E reply \in FetchReplies(resourceIds[k]) :
      /\ ReplyFor(k, reply)
      /\ reply.status = "error"
      /\ Settle(k, reply, "rejected")

\* Promise.all fulfilled: commandAction joins and logs the results.
JoinAndLog ==
  /\ pc = "awaitAll"
  /\ all.state = "fulfilled"
  /\ resources' = FulfilledValues(tasks)
  /\ logged' = Append(logged, Join(spAppRoleAssignments, resources'))
  /\ pc' = "done"
  /\ UNCHANGED <<options, requests, resp, returned, spAppRoleAssignments, resourceIds,
                 i, tasks, all, directory, error>>

\* Promise.all rejected: the catch block rethrows the reason.
FanOutFails ==
  /\ pc = "awaitAll"
  /\ all.state = "rejected"
  /\ error' = all.reason
  /\ pc' = "failed"
  /\ UNCHANGED <<options, requests, resp, returned, spAppRoleAssignments, resourceIds,
                 i, tasks, all, directory, resources, logged>>

Next ==
  \/ Validate
  \/ GetAppRoleAssignments
  \/ LocatorReply
  \/ LocatorThrows
  \/ LocatorReturns
  \/ StartFanOut
  \/ IssueFetch
  \/ AwaitAll
  \/ FetchFulfils
  \/ FetchRejects
  \/ JoinAndLog
  \/ FanOutFails

Spec == Init /\ [][Next]_vars

(* ------------------------- notions of the claims ---------------------- *)
Output == logged[1]

FetchRequests == SelectSeq(requests, LAMBDA q : q.op = "getServicePrincipal")

Rejected == {k \in 1..Len(tasks) : tasks[k].state = "rejected"}

\* a has a first resource with its resourceId in rs, and that resource
\* declares a role with a's appRoleId.
Matches(a, rs) ==
  \E j \in 1..Len(rs) :
    /\ rs[j].id = a.resourceId
    /\ \A h \in 1..(j - 1) : rs[h].id # a.resourceId
    /\ \E m \in 1..Len(rs[j].appRoles) : rs[j].appRoles[m].id = a.appRoleId

Matching == {k \in 1..Len(spAppRoleAssignments) : Matches(spAppRoleAssignments[k], resources)}

MatchingAssignments == SelectSeq(spAppRoleAssignments, LAMBDA a : Matches(a, resources))

\* C1: every emitted record has roleId equal to its assignment's appRoleId,
\* resourceId equal to the id of a fetched resource, and roleName equal to the
\* value of a role with that id in the appRoles of the first resource with
\* that id; its resource and role are among the fetched ones.
C1_JoinCorrectness ==
  pc = "done" =>
    \A n \in 1..Len(Output) :
      /\ Output[n].roleId = Output[n].appRoleId
      /\ \E k \in 1..Len(spAppRoleAssignments) :
           /\ spAppRoleAssignments[k].appRoleId = Output[n].appRoleId
           /\ spAppRoleAssignments[k].resourceId = Output[n].resourceId
      /\ \E j \in 1..Len(resources) :
           /\ resources[j].id = Output[n].resourceId
           /\ \A h \in 1..(j - 1) : resources[h].id # Output[n].resourceId
           /\ \E m \in 1..Len(resources[j].appRoles) :
                /\ resources[j].appRoles[m].id = Output[n].roleId
                /\ resources[j].appRoles[m].value = Output[n].roleName

\* A record whose role is not the first role of its resource's catalog.
C1_Witness ==
  /\ pc = "done"
  /\ \E n \in 1..Len(Output) : \E j \in 1..Len(resources) :
       /\ resources[j].id = Output[n].resourceId
       /\ Len(resources[j].appRoles) = 2
       /\ resources[j].appRoles[1].id # Output[n].roleId
       /\ resources[j].appRoles[2].value = Output[n].roleName

\* C2: an assignment without a matching resource or without a matching role
\* yields no record and no error: the invocation succeeds, logs once, emits one
\* record per matching assignment, and the output is the one the matching
\* assignments alone would give.
C2_Omission ==
  pc = "done" =>
    /\ error = NoError
    /\ Len(logged) = 1
    /\ Len(Output) = Cardinality(Matching)
    /\ Output = Join(MatchingAssignments, resources)

\* One assignment dropped for lack of a resource or of a role, another emitted.
C2_Witness ==
  /\ pc = "done"
  /\ Len(spAppRoleAssignments) = 2
  /\ Len(Output) = 1
  /\ \E k \in 1..2 :
       /\ k \notin Matching
       /\ \A j \in 1..Len(resources) : resources[j].id # spAppRoleAssignments[k].resourceId

\* C3: the output follows the order of the assignments, dropped entries
\* skipped: a strictly increasing map sends the records onto the matching
\* assignments, one record per matching entry, duplicates included.
C3_Ordering ==
  pc = "done" =>
    \E f \in [1..Len(Output) -> 1..Len(spAppRoleAssignments)] :
      /\ \A n \in 1..Len(Output) : \A m \in 1..Len(Output) : n < m => f[n] < f[m]
      /\ {f[n] : n \in 1..Len(Output)} = Matching
      /\ \A n \in 1..Len(Output) :
           /\ Output[n].appRoleId = spAppRoleAssignments[f[n]].appRoleId
           /\ Output[n].resourceId = spAppRoleAssignments[f[n]].resourceId
           /\ Output[n].resourceDisplayName = spAppRoleAssignments[f[n]].resourceDisplayName
           /\ Output[n].created = spAppRoleAssignments[f[n]].createdDateTime
           /\ Output[n].deleted = spAppRoleAssignments[f[n]].deletedDateTime

\* Two different assignments, both emitted.
C3_Witness ==
  /\ pc = "done"
  /\ Len(spAppRoleAssignments) = 2
  /\ spAppRoleAssignments[1] # spAppRoleAssignments[2]
  /\ Len(Output) = 2

\* C4: once getAppRoleAssignments has handled an empty assignment collection
\* (appObjectId given) the invocation has failed with 'no app role assignments
\* found'; once it has handled a filter reply without service principals it
\* has failed with 'app registration not found'. Either failure is terminal:
\* no resource is fetched, nothing is logged and no step follows.
C4_NotFound ==
  (pc # "locatorReplied" /\ resp.kind \in {"assignments", "servicePrincipals"}
     /\ Len(resp.value) = 0) =>
    /\ pc = "failed"
    /\ resp.kind = "assignments" =>
         Supplied(options.appObjectId) /\ error = "no app role assignments found"
    /\ resp.kind = "servicePrincipals" => error = "app registration not found"
    /\ Len(requests) = 1
    /\ tasks = <<>>
    /\ logged = <<>>
    /\ ~ENABLED Next

C4_Witness ==
  /\ pc = "failed"
  /\ resp.kind = "assignments"
  /\ Len(resp.value) = 0
  /\ error = "no app role assignments found"

\* C5: a successful listing never comes from a service principal with zero
\* app role assignments, whichever selector located it.
C5_ZeroAssignmentsNotFound ==
  pc = "done" => Len(spAppRoleAssignments) > 0

\* C6: with a number of supplied selectors other than one, or a supplied
\* appId or appObjectId that is no valid GUID, validation fails and no
\* directory request is issued.
C6_ValidationPrecedesNetwork ==
  (\/ Cardinality(SuppliedOfSet(options)) # 1
   \/ Supplied(options.appId) /\ ~isValidGuid(options.appId)
   \/ Supplied(options.appObjectId) /\ ~isValidGuid(options.appObjectId)) =>
    /\ requests = <<>>
    /\ pc \in {"validate", "failed"}

\* C7: once a resource fetch has failed the invocation never completes and
\* logs nothing, also when other fetches resolved; it fails with the error of
\* a failed fetch, and no fetch is issued twice.
C7_AllOrNothing ==
  /\ Rejected # {} => pc \in {"awaitAll", "failed"} /\ logged = <<>>
  /\ (Rejected # {} /\ pc = "failed") =>
       \E k \in Rejected : error = tasks[k].reply.error
  /\ (Rejected # {} /\ pc = "awaitAll") => all.state = "rejected"
  /\ Len(FetchRequests) = Len(tasks)
  /\ Len(tasks) <= Len(spAppRoleAssignments)

\* One fetch failed, another resolved, the invocation failed.
C7_Witness ==
  /\ pc = "failed"
  /\ logged = <<>>
  /\ \E k \in 1..Len(tasks) : \E m \in 1..Len(tasks) :
       /\ tasks[k].state = "rejected"
       /\ error = tasks[k].reply.error
       /\ tasks[m].state = "fulfilled"

\* What the directory holds for each distinct resourceId of the assignments.
DistinctResources ==
  LET ids == DistinctResourceIds(spAppRoleAssignments)
  IN [k \in 1..Len(ids) |-> directory[ids[k]]]

\* C8: the output equals the join of the assignments against the resources
\* obtained by fetching each distinct resourceId once, in order of first
\* occurrence.
C8_DedupEquivalence ==
  pc = "done" =>
    /\ \A k \in 1..Len(DistinctResources) : DistinctResources[k].status = "ok"
    /\ Output = Join(spAppRoleAssignments, DistinctResources)

\* Two assignments on the same resource, both emitted.
C8_Witness ==
  /\ pc = "done"
  /\ Len(spAppRoleAssignments) = 2
  /\ Len(DistinctResources) = 1
  /\ Len(resources) = 2
  /\ Len(Output) = 2

\* C9: when the filter query returns service principals, the assignments
\* getAppRoleAssignments returns, and commandAction then uses, are those
\* embedded in the first one, and nothing is thrown.
C9_FirstMatchWins ==
  (pc = "locatorReturned" /\ resp.kind = "servicePrincipals") =>
    /\ returned = resp.value[1].appRoleAssignments
    /\ error = NoError

\* Two matches with different assignments.
C9_Witness ==
  /\ pc = "locatorReturned"
  /\ resp.kind = "servicePrincipals"
  /\ Len(resp.value) = 2
  /\ resp.value[1].appRoleAssignments # resp.value[2].appRoleAssignments
  /\ returned = resp.value[1].appRoleAssignments

\* C10: one fetch per assignment entry, in order, all issued before any
\* settles or is awaited; the join and the log only once every fetch has
\* resolved; the result is decided by the directory content alone.
C10_JoinBarrier ==
  /\ (pc \in {"awaitAll", "done"} \/ \E k \in 1..Len(tasks) : tasks[k].state # "pending") =>
       /\ Len(tasks) = Len(spAppRoleAssignments)
       /\ Len(FetchRequests) = Len(spAppRoleAssignments)
       /\ \A k \in 1..Len(FetchRequests) :
            FetchRequests[k].arg = spAppRoleAssignments[k].resourceId
  /\ logged # <<>> => pc = "done"
  /\ pc = "done" =>
       /\ \A k \in 1..Len(tasks) : tasks[k].state = "fulfilled"
       /\ resources = [k \in 1..Len(spAppRoleAssignments) |->
                         directory[spAppRoleAssignments[k].resourceId]]
       /\ Output = Join(spAppRoleAssignments, resources)

\* The same resource fetched twice, once per assignment.
C10_Witness ==
  /\ pc = "done"
  /\ Len(FetchRequests) = 2
  /\ FetchRequests[1].arg = FetchRequests[2].arg

====
